---------------------------- MODULE Spec2Model ----------------------------
(***************************************************************************)
(* A model of gitrelease (src/main.rs): the release-note pipeline of main  *)
(* and the pure functions it is built from.  Strings are sequences of      *)
(* one-character strings; Option values are records tagged "Some"/"None";  *)
(* a panic (expect/unwrap on a failure) is a record tagged "Panic".        *)
(***************************************************************************)
EXTENDS Integers, Sequences, FiniteSets

VARIABLES
    args,              \* Args: flag_version, flag_subdir, flag_submodule
    pc,                \* position of main (or of the function under study)
    stdout,            \* what print! has written so far, one chunk per call
    status,            \* Running, Exit(0), or the Panic that ended the run
    tags,              \* the repository's tag references, in enumeration order
    repo_url,          \* main's repo_url
    last_release_tag,  \* main's Option<Tag>
    commits,           \* main's commits (the range walk's result)
    text,              \* the argument of Version::parse
    version,           \* the Option<Version> under study
    prev_version,      \* the Version before the last Version::bump
    bump_type,         \* the argument of the last Version::bump
    table              \* the result of get_category_table

vars == <<args, pc, stdout, status, tags, repo_url, last_release_tag,
          commits, text, version, prev_version, bump_type, table>>

\* the variables of main
main_vars == <<args, stdout, tags, repo_url, last_release_tag, commits>>

\* the variables that hold the arguments and results of the functions
\* studied on their own
study_vars == <<text, version, prev_version, bump_type, table>>

----------------------------------------------------------------------------
(* Option and panic values *)

Some(x) == [tag |-> "Some", val |-> x]

None == [tag |-> "None"]

Panic(msg) == [tag |-> "Panic", msg |-> msg]

\* the values of status
Running == [tag |-> "Running"]

Exit(code) == [tag |-> "Exit", code |-> code]

----------------------------------------------------------------------------
(* str helpers of the Rust standard library, on sequences of characters *)

\* s[i..] (1-based, inclusive)
Tail_from(s, i) == SubSeq(s, i, Len(s))

\* str::starts_with
starts_with(s, p) == Len(p) <= Len(s) /\ SubSeq(s, 1, Len(p)) = p

\* str::ends_with
ends_with(s, p) ==
    Len(p) <= Len(s) /\ SubSeq(s, Len(s) - Len(p) + 1, Len(s)) = p

\* str::find(char): the 1-based index of the first occurrence, 0 for None
find(s, c) ==
    IF \E i \in 1..Len(s) : s[i] = c
    THEN CHOOSE i \in 1..Len(s) : s[i] = c /\ \A j \in 1..(i - 1) : s[j] # c
    ELSE 0

\* str::contains(&str)
contains(s, p) ==
    \E i \in 1..(Len(s) - Len(p) + 1) : SubSeq(s, i, i + Len(p) - 1) = p

\* char::is_whitespace, on the characters of the model
is_whitespace(c) == c \in {" ", "\t", "\n", "\r"}

\* str::trim
trim(s) ==
    IF \A i \in 1..Len(s) : is_whitespace(s[i])
    THEN <<>>
    ELSE LET a == CHOOSE i \in 1..Len(s) :
                    /\ ~is_whitespace(s[i])
                    /\ \A j \in 1..(i - 1) : is_whitespace(s[j])
             b == CHOOSE i \in 1..Len(s) :
                    /\ ~is_whitespace(s[i])
                    /\ \A j \in (i + 1)..Len(s) : is_whitespace(s[j])
         IN  SubSeq(s, a, b)

\* str::lines().next(): None for the empty string, else the text before the
\* first line break (a "\r" before it removed)
lines_next(s) ==
    IF s = <<>> THEN None
    ELSE LET n == find(s, "\n")
             line == IF n = 0 THEN s ELSE SubSeq(s, 1, n - 1)
         IN  Some(IF n # 0 /\ line # <<>> /\ line[Len(line)] = "\r"
                  THEN SubSeq(line, 1, Len(line) - 1)
                  ELSE line)

\* str::split(c).last(): the text after the last c (the whole text if none)
split_last(s, c) ==
    IF \E i \in 1..Len(s) : s[i] = c
    THEN LET k == CHOOSE i \in 1..Len(s) :
                    s[i] = c /\ \A j \in (i + 1)..Len(s) : s[j] # c
         IN  Tail_from(s, k + 1)
    ELSE s

----------------------------------------------------------------------------
(* Character classes of the regex crate (Unicode mode) *)

AsciiDigits == {"0", "1", "2", "3", "4", "5", "6", "7", "8", "9"}

\* U+0663 ARABIC-INDIC DIGIT THREE: in \d and \w, not an ASCII digit
ArabicThree == "U+0663"

AsciiLetters ==
    {"a", "b", "c", "d", "e", "f", "g", "h", "i", "j", "k", "l", "m",
     "n", "o", "p", "q", "r", "s", "t", "u", "v", "w", "x", "y", "z",
     "A", "B", "C", "D", "E", "F", "G", "H", "I", "J", "K", "L", "M",
     "N", "O", "P", "Q", "R", "S", "T", "U", "V", "W", "X", "Y", "Z"}

\* \d
is_digit(c) == c \in AsciiDigits \cup {ArabicThree}

\* \w
is_word(c) == is_digit(c) \/ c \in AsciiLetters \/ c = "_"

\* the end of the longest run of \d characters starting at i (i - 1 when
\* s[i] is not a digit)
digits_end(s, i) ==
    IF i > Len(s) THEN i - 1
    ELSE CHOOSE j \in (i - 1)..Len(s) :
        /\ \A k \in i..j : is_digit(s[k])
        /\ (j = Len(s) \/ ~is_digit(s[j + 1]))

\* VERSION_REGEX: ^(\d+)\.(\d+)\.(\d+)(-\w+)?(-SNAPSHOT)?$
\* the text of capture groups 1..3 when the whole text matches, else None
SNAPSHOT_SUFFIX == <<"-", "S", "N", "A", "P", "S", "H", "O", "T">>

all_word(s) == s # <<>> /\ \A i \in 1..Len(s) : is_word(s[i])

\* (-\w+)?(-SNAPSHOT)?$ on the rest of the text after group 3
suffix_matches(rest) ==
    \/ rest = <<>>
    \/ rest = SNAPSHOT_SUFFIX
    \/ rest[1] = "-" /\ all_word(Tail_from(rest, 2))
    \/ /\ rest[1] = "-"
       /\ ends_with(rest, SNAPSHOT_SUFFIX)
       /\ all_word(SubSeq(rest, 2, Len(rest) - Len(SNAPSHOT_SUFFIX)))

VERSION_REGEX_captures(s) ==
    LET e1 == digits_end(s, 1)
        e2 == digits_end(s, e1 + 2)
        e3 == digits_end(s, e2 + 2)
    IN  IF /\ e1 >= 1
           /\ e1 + 1 <= Len(s) /\ s[e1 + 1] = "."
           /\ e2 >= e1 + 2
           /\ e2 + 1 <= Len(s) /\ s[e2 + 1] = "."
           /\ e3 >= e2 + 2
           /\ suffix_matches(Tail_from(s, e3 + 1))
        THEN Some(<<SubSeq(s, 1, e1), SubSeq(s, e1 + 2, e2),
                    SubSeq(s, e2 + 2, e3)>>)
        ELSE None

\* i32::MAX
I32Max == 2147483647

digit_value(c) ==
    CASE c = "0" -> 0 [] c = "1" -> 1 [] c = "2" -> 2 [] c = "3" -> 3
      [] c = "4" -> 4 [] c = "5" -> 5 [] c = "6" -> 6 [] c = "7" -> 7
      [] c = "8" -> 8 [] c = "9" -> 9

\* str::parse::<i32> on a text without sign: Err (None) on an empty text, on
\* a character that is not an ASCII digit and on overflow of i32
RECURSIVE parse_i32_from(_, _, _)
parse_i32_from(s, i, acc) ==
    IF i > Len(s) THEN Some(acc)
    ELSE IF s[i] \notin AsciiDigits THEN None
    ELSE IF acc > (I32Max - digit_value(s[i])) \div 10 THEN None
    ELSE parse_i32_from(s, i + 1, acc * 10 + digit_value(s[i]))

parse_i32(s) == IF s = <<>> THEN None ELSE parse_i32_from(s, 1, 0)

----------------------------------------------------------------------------
(* struct Version and impl Version *)

\* Version::parse: Some(Version), None when the regex does not match, and a
\* panic when a captured group is not an i32 (the three expect calls)
Version_parse(t) ==
    LET cap == VERSION_REGEX_captures(t)
    IN  IF cap.tag = "None" THEN None
        ELSE LET major == parse_i32(cap.val[1])
                 minor == parse_i32(cap.val[2])
                 patch == parse_i32(cap.val[3])
             IN  IF major.tag = "None" THEN Panic("Cannot parse major number.")
                 ELSE IF minor.tag = "None"
                      THEN Panic("Cannot parse minor number.")
                 ELSE IF patch.tag = "None"
                      THEN Panic("Cannot parse patch number.")
                 ELSE Some([major |-> major.val, minor |-> minor.val,
                            patch |-> patch.val, extra |-> <<>>,
                            snapshot |-> FALSE])

\* Version::bump with "major" leaving the snapshot flag as it was
Version_bump_keeps_snapshot(v, t) ==
    CASE t = "major" -> [v EXCEPT !.major = @ + 1, !.minor = 0, !.patch = 0]
      [] t = "minor" ->
           [v EXCEPT !.minor = @ + 1, !.patch = 0, !.snapshot = FALSE]
      [] t = "patch" ->
           [v EXCEPT !.patch = @ + 1, !.snapshot = FALSE]
      [] t = "snapshot" ->
           [v EXCEPT !.patch = @ + 1, !.snapshot = TRUE]
      [] OTHER -> v

\* Version::bump.  The components are i32 and += 1 is written as + 1: the
\* versions bumped here stay within MaxNumber + 1, far below i32::MAX
Version_bump(v, t) ==
    CASE t = "major" ->
           [v EXCEPT !.major = @ + 1, !.minor = 0, !.patch = 0,
                     !.snapshot = FALSE]
      [] t = "minor" ->
           [v EXCEPT !.minor = @ + 1, !.patch = 0, !.snapshot = FALSE]
      [] t = "patch" ->
           [v EXCEPT !.patch = @ + 1, !.snapshot = FALSE]
      [] t = "snapshot" ->
           [v EXCEPT !.patch = @ + 1, !.snapshot = TRUE]
      [] OTHER -> v

\* the display of an i32 that is not negative: its decimal digits
RECURSIVE i32_to_string(_)
i32_to_string(n) ==
    LET d == CHOOSE c \in AsciiDigits : digit_value(c) = n % 10
    IN  IF n < 10 THEN <<d>> ELSE i32_to_string(n \div 10) \o <<d>>

\* Version::to_string
Version_to_string(v) ==
    i32_to_string(v.major) \o <<".">> \o i32_to_string(v.minor) \o <<".">>
        \o i32_to_string(v.patch) \o v.extra
        \o (IF v.snapshot THEN SNAPSHOT_SUFFIX ELSE <<>>)

----------------------------------------------------------------------------
(* Results of functions that may panic, and format! results *)

Ok(x) == [tag |-> "Ok", val |-> x]

\* one format!/push_str call: the format string and its arguments.  A String
\* built by push_str is the sequence of its pieces.
Fmt(f, a) == [fmt |-> f, args |-> a]

----------------------------------------------------------------------------
(* Commits: [id, message]; the message is valid UTF-8 text, on which
   String::from_utf8_lossy changes nothing *)

RELEASE == <<"R", "e", "l", "e", "a", "s", "e">>

\* no title taken for a release marker
is_release_title_never(title) == FALSE

\* commit_title.starts_with("Release")  (main.rs:63 and main.rs:136)
is_release_title(title) == starts_with(title, RELEASE)

\* submodule == "" || commit_title.contains(&format!("({})", submodule))
passes_submodule(title, submodule) ==
    submodule = <<>> \/ contains(title, <<"(">> \o submodule \o <<")">>)

\* commit_title.find("(") of get_category_table: the first "(" of the whole
\* title, wherever it is
doc_type_paren(title) == find(title, "(")

\* the (doc_type, title) pair get_category_table files for a considered
\* commit title that contains ":" at index (1-based)
category_entry(commit_title, index) ==
    LET title == trim(Tail_from(commit_title, index + 1))
        p == doc_type_paren(commit_title)
        end_index == IF p # 0 THEN p ELSE index
        doc_type == SubSeq(commit_title, 1, end_index - 1)
    IN  <<doc_type, title>>

\* table.get_mut(doc_type) / push, else table.insert
table_push(t, doc_type, title) ==
    IF doc_type \in DOMAIN t
    THEN [t EXCEPT ![doc_type] = Append(@, title)]
    ELSE [k \in DOMAIN t \cup {doc_type} |->
            IF k = doc_type THEN <<title>> ELSE t[k]]

EmptyTable == [k \in {} |-> <<>>]

\* get_category_table from commit i on, with the table built so far
RECURSIVE get_category_table_from(_, _, _, _)
get_category_table_from(cs, i, submodule, t) ==
    IF i > Len(cs) THEN Ok(t)
    ELSE LET line == lines_next(cs[i].message)
         IN  IF line.tag = "None"
             THEN Panic("Could not read the commit title.")
             ELSE LET commit_title == line.val
                      index == find(commit_title, ":")
                      e == category_entry(commit_title, index)
                  IN  IF is_release_title(commit_title)
                      THEN get_category_table_from(cs, i + 1, submodule, t)
                      ELSE IF passes_submodule(commit_title, submodule)
                              /\ index # 0
                      THEN get_category_table_from(cs, i + 1, submodule,
                               table_push(t, e[1], e[2]))
                      ELSE get_category_table_from(cs, i + 1, submodule, t)

get_category_table(cs, submodule) ==
    get_category_table_from(cs, 1, submodule, EmptyTable)

\* get_commits: the lines of the commit list, or the panic of unwrap
RECURSIVE get_commits_from(_, _, _, _, _)
get_commits_from(cs, i, submodule, url, result) ==
    IF i > Len(cs) THEN Ok(Append(result, Fmt("\n\n", <<>>)))
    ELSE LET line == lines_next(cs[i].message)
         IN  IF line.tag = "None"
             THEN Panic("unwrap on a None value")
             ELSE LET commit_title == line.val
                      commit_url == Fmt("{}/commit/{}", <<url, cs[i].id>>)
                  IN  IF is_release_title(commit_title)
                      THEN get_commits_from(cs, i + 1, submodule, url, result)
                      ELSE IF passes_submodule(commit_title, submodule)
                      THEN get_commits_from(cs, i + 1, submodule, url,
                               Append(result, Fmt("* [{}]({})\n",
                                          <<commit_title, commit_url>>)))
                      ELSE get_commits_from(cs, i + 1, submodule, url, result)

get_commits(cs, submodule, url) ==
    get_commits_from(cs, 1, submodule, url,
                     <<Fmt("### Commits since last release:\n\n", <<>>)>>)

\* the bump type chosen without looking at the table
header_bump_type_always_patch(t) == "patch"

\* get_header's choice of the bump type from the category table
header_bump_type(t) == IF <<"f", "e", "a", "t">> \in DOMAIN t THEN "minor" ELSE "patch"

HEADER_FORMAT ==
    ":robot: I have created a release \\*beep\\* \\*boop\\*\n---\n### {} / {}\n\n"

\* get_header; date is chrono::Local::now() formatted as %Y-%m-%d
get_header(cs, last_tag, submodule, date) ==
    LET segment == split_last(last_tag.name, "/")
        stripped == IF segment[1] = "v" THEN Tail_from(segment, 2) ELSE segment
        parsed == Version_parse(stripped)
        t == get_category_table(cs, submodule)
    IN  IF segment = <<>>
        THEN Panic("Could not read the next char from version.")
        ELSE IF parsed.tag = "Panic" THEN parsed
        ELSE IF parsed.tag = "None"
             THEN Panic("Could not parse the version string.")
        ELSE IF t.tag = "Panic" THEN t
        ELSE Ok(<<Fmt(HEADER_FORMAT,
                      <<Version_to_string(
                            Version_bump(parsed.val, header_bump_type(t.val))),
                        date>>)>>)

\* the match with "feat" among the skipped categories
category_of_feat_skipped(key) ==
    CASE key = <<"f", "e", "a", "t">> -> <<"Features", TRUE>>
      [] key = <<"f", "i", "x">> -> <<"Bug Fixes", FALSE>>
      [] key = <<"d", "o", "c", "s">> -> <<"Documentation", FALSE>>
      [] key = <<"p", "e", "r", "f">> -> <<"Performance Improvements", FALSE>>
      [] OTHER -> <<"Other", TRUE>>

\* the match of get_categorized_changes: <<category, is_skip>>
category_of(key) ==
    CASE key = <<"f", "e", "a", "t">> -> <<"Features", FALSE>>
      [] key = <<"f", "i", "x">> -> <<"Bug Fixes", FALSE>>
      [] key = <<"d", "o", "c", "s">> -> <<"Documentation", FALSE>>
      [] key = <<"s", "t", "y", "l", "e">> -> <<"Styles", TRUE>>
      [] key = <<"r", "e", "f", "a", "c", "t", "o", "r">> ->
           <<"Code Refactoring", TRUE>>
      [] key = <<"t", "e", "s", "t">> -> <<"Test Refactoring", TRUE>>
      [] key = <<"c", "h", "o", "r", "e">> -> <<"Miscellaneous Chores", TRUE>>
      [] key = <<"p", "e", "r", "f">> -> <<"Performance Improvements", FALSE>>
      [] OTHER -> <<"Other", TRUE>>

\* the "* {}\n" lines of one category
bullets(values) == [i \in 1..Len(values) |-> Fmt("* {}\n", <<values[i]>>)]

\* the loop of get_categorized_changes over the keys in iteration order
RECURSIVE categorized_from(_, _, _, _)
categorized_from(t, order, i, result) ==
    IF i > Len(order) THEN Append(result, Fmt("---\n", <<>>))
    ELSE LET c == category_of(order[i])
         IN  IF c[2] THEN categorized_from(t, order, i + 1, result)
             ELSE categorized_from(t, order, i + 1,
                      (Append(result, Fmt("#### {}\n\n", <<c[1]>>))
                          \o bullets(t[order[i]]))
                          \o <<Fmt("\n", <<>>)>>)

\* the orders in which HashMap::iter may yield the keys of t
iteration_orders(t) ==
    {o \in [1..Cardinality(DOMAIN t) -> DOMAIN t] :
        \A i, j \in DOMAIN o : i # j => o[i] # o[j]}

\* get_categorized_changes, given the iteration order of the table
get_categorized_changes(cs, submodule, order) ==
    LET t == get_category_table(cs, submodule)
    IN  IF t.tag = "Panic" THEN t
        ELSE Ok(categorized_from(t.val, order, 1, <<>>))

\* the deltas loop of get_edited_files; a delta is the Option<Option<str>> of
\* delta.old_file().path() and its to_str()
RECURSIVE edited_from(_, _, _, _)
edited_from(deltas, i, folder, result) ==
    IF i > Len(deltas) THEN Ok(Append(result, Fmt("</code></pre>\n", <<>>)))
    ELSE LET pattern == IF folder = <<>> THEN <<>> ELSE folder \o <<"/">>
         IN  IF deltas[i].tag = "None"
             THEN Panic("Could not find the path of old file.")
             ELSE IF deltas[i].val.tag = "None"
             THEN Panic("Could not parse file path.")
             ELSE IF starts_with(deltas[i].val.val, pattern)
             THEN edited_from(deltas, i + 1, folder,
                      Append(result, Fmt("{}\n", <<deltas[i].val.val>>)))
             ELSE edited_from(deltas, i + 1, folder, result)

\* get_edited_files; diff is what the backend answers: which of the three
\* calls fails, or the deltas
get_edited_files(diff, folder) ==
    IF diff.old_tree = "Err" THEN Panic("Could not find the old tree.")
    ELSE IF diff.new_tree = "Err" THEN Panic("Could not find the new tree.")
    ELSE IF diff.diff = "Err" THEN Panic("Could not diff two trees.")
    ELSE edited_from(diff.deltas, 1, folder,
             <<Fmt("### Files edited since last release:\n\n<pre><code>",
                   <<>>)>>)

\* get_compare_changes
get_compare_changes(url, oid) ==
    <<Fmt("[Compare Changes]({}/compare/{}...HEAD)", <<url, oid>>)>>

\* get_footer
get_footer ==
    <<Fmt("\n\n\nThis PR was generated with [GitRelease](https://github.com/hengfengli/gitrelease).\n",
          <<>>)>>

----------------------------------------------------------------------------
(* find_origin_remote_url *)

HTTPS_PREFIX == <<"h", "t", "t", "p", "s", ":", "/", "/">>

GIT_AT == <<"g", "i", "t", "@">>

DOT_GIT == <<".", "g", "i", "t">>

\* GITHUB_URL_REGEX: ^git@([\w.]*):([\w/-]*)\.git$
\* the text of groups 1 and 2 when the whole text matches, else None
GITHUB_URL_REGEX_captures(u) ==
    LET colon == find(u, ":")
        host == SubSeq(u, Len(GIT_AT) + 1, colon - 1)
        path == SubSeq(u, colon + 1, Len(u) - Len(DOT_GIT))
    IN  IF /\ starts_with(u, GIT_AT)
           /\ colon # 0
           /\ \A i \in 1..Len(host) : is_word(host[i]) \/ host[i] = "."
           /\ Len(u) - Len(DOT_GIT) >= colon
           /\ ends_with(u, DOT_GIT)
           /\ \A i \in 1..Len(path) : is_word(path[i]) \/ path[i] \in {"/", "-"}
        THEN Some(<<host, path>>)
        ELSE None

\* find_origin_remote_url; remote is what the backend answers for
\* find_remote("origin") and its url(): None, Some(None) or Some(Some(url))
find_origin_remote_url(remote) ==
    IF remote.tag = "None" THEN Panic("Could not find the origin remote.")
    ELSE IF remote.val.tag = "None"
         THEN Panic("Failed to read the remote url.")
    ELSE LET origin_url == remote.val.val
             cap == GITHUB_URL_REGEX_captures(origin_url)
         IN  IF starts_with(origin_url, HTTPS_PREFIX) THEN Ok(origin_url)
             ELSE IF cap.tag = "None" THEN Panic("Failed to read origin url.")
             ELSE Ok(HTTPS_PREFIX \o cap.val[1] \o <<"/">> \o cap.val[2])

----------------------------------------------------------------------------
(* find_commit_for_last_release.  A tag reference is [name, obj]; obj is the
   object revparse_single finds for the name: its type ("commit", "tag" for
   an annotated tag object, "blob", "tree", or "missing" when the lookup
   fails), the type of the object it ultimately points to (peeled), and the
   id and author time of that commit when there is one *)

\* repo.tag_names(Some(pattern)): "v*" or "{folder}/*"
matches_pattern(name, folder) ==
    IF folder = <<>> THEN starts_with(name, <<"v">>)
    ELSE starts_with(name, folder \o <<"/">>)

\* obj.as_commit(): Some only when the object itself is a commit
as_commit(obj) == IF obj.type = "commit" THEN Some(obj) ELSE None

\* the comparison with >= : a tie replaces the tag kept so far
is_later_or_equal(commit_time, tag) == commit_time >= tag.time

\* commit_time.seconds() > tag.time.seconds()
is_later(commit_time, tag) == commit_time > tag.time

\* the loop over the tag names, from reference i on
RECURSIVE last_release_from(_, _, _, _)
last_release_from(ts, i, folder, latest_tag) ==
    IF i > Len(ts) THEN Ok(latest_tag)
    ELSE IF ~matches_pattern(ts[i].name, folder)
    THEN last_release_from(ts, i + 1, folder, latest_tag)
    ELSE IF ts[i].obj.type = "missing" THEN Panic("Failed to get obj")
    ELSE LET commit == as_commit(ts[i].obj)
             new_tag == [name |-> ts[i].name, time |-> ts[i].obj.time,
                         oid |-> ts[i].obj.id]
         IN  IF commit.tag = "None"
             THEN last_release_from(ts, i + 1, folder, latest_tag)
             ELSE IF latest_tag.tag = "None"
             THEN last_release_from(ts, i + 1, folder, Some(new_tag))
             ELSE IF is_later(commit.val.time, latest_tag.val)
             THEN last_release_from(ts, i + 1, folder, Some(new_tag))
             ELSE last_release_from(ts, i + 1, folder, latest_tag)

\* find_commit_for_last_release; names_ok is whether tag_names succeeds
find_commit_for_last_release(ts, folder, names_ok) ==
    IF ~names_ok THEN Panic("Could not find any matching tags.")
    ELSE last_release_from(ts, 1, folder, None)

----------------------------------------------------------------------------
(* Bounds and the inputs drawn within them *)

\* tag references in the repository of a run of main
MaxRepoTags == 2

\* commits in the range walked by a run of main
MaxCommits == 2

SeqsUpTo(S, n) == UNION {[1..k -> S] : k \in 0..n}

\* --subdir values: none, "s"
Subdirs == {<<>>, <<"s">>}

\* --submodule values: none, "x"
Submodules == {<<>>, <<"x">>}

commit_obj(id, time) ==
    [type |-> "commit", peeled |-> "commit", id |-> id, time |-> time]

annotated_obj(id, time) ==
    [type |-> "tag", peeled |-> "commit", id |-> id, time |-> time]

\* the tag references a repository of a run of main is made of
RepoTagPool ==
    { [name |-> <<"v", "1", ".", "2", ".", "3">>, obj |-> commit_obj(101, 1)],
      [name |-> <<"v", "2", ".", "0", ".", "0">>, obj |-> annotated_obj(102, 2)],
      [name |-> <<"s", "/", "v", "0", ".", "9", ".", "0">>,
       obj |-> commit_obj(102, 2)],
      [name |-> <<"v", "n", "e", "x", "t">>, obj |-> commit_obj(103, 3)] }

\* tag names are unique in a repository
distinct_names(ts) == \A i, j \in DOMAIN ts : i # j => ts[i].name # ts[j].name

RepoTagLists == {ts \in SeqsUpTo(RepoTagPool, MaxRepoTags) : distinct_names(ts)}

\* what find_remote("origin") and url() may answer
Remotes ==
    { None, Some(None),
      Some(Some(HTTPS_PREFIX \o <<"h", "/", "o">>)),
      Some(Some(GIT_AT \o <<"h", ":", "o">> \o DOT_GIT)),
      Some(Some(<<"f", "t", "p", ":", "/", "/", "h">>)) }

\* commit messages of the commits of a range
Messages ==
    { <<"f", "e", "a", "t", ":", " ", "a">>,
      <<"f", "e", "a", "t", "(", "x", ")", ":", " ", "b", "\n", "\n", "t">>,
      <<"f", "i", "x", "(", "x", ")", ":", " ", "c">>,
      <<"R", "e", "l", "e", "a", "s", "e", "(", "x", ")", ":", " ", "d">>,
      <<"w", "i", "p">>,
      <<>> }

\* the commits of a range: commit i has id i
commit_lists(msgs, n) ==
    {[i \in DOMAIN ms |-> [id |-> i, message |-> ms[i]]] : ms \in SeqsUpTo(msgs, n)}

\* what the backend may answer to get_edited_files
Diffs ==
    { [old_tree |-> "Err", new_tree |-> "Ok", diff |-> "Ok", deltas |-> <<>>],
      [old_tree |-> "Ok", new_tree |-> "Err", diff |-> "Ok", deltas |-> <<>>],
      [old_tree |-> "Ok", new_tree |-> "Ok", diff |-> "Err", deltas |-> <<>>],
      [old_tree |-> "Ok", new_tree |-> "Ok", diff |-> "Ok",
       deltas |-> <<Some(Some(<<"s", "/", "a">>)), Some(Some(<<"b">>))>>],
      [old_tree |-> "Ok", new_tree |-> "Ok", diff |-> "Ok",
       deltas |-> <<Some(Some(<<"b">>)), Some(None)>>],
      [old_tree |-> "Ok", new_tree |-> "Ok", diff |-> "Ok",
       deltas |-> <<None>>] }

\* chrono::Local::now() formatted as %Y-%m-%d
Dates == {"2020-02-29"}

----------------------------------------------------------------------------
(* main *)

Init ==
    /\ args \in [flag_version : BOOLEAN, flag_subdir : Subdirs,
                  flag_submodule : Submodules]
    /\ tags \in RepoTagLists
    /\ pc = "main"
    /\ stdout = <<>>
    /\ status = Running
    /\ repo_url = None
    /\ last_release_tag = None
    /\ commits = <<>>
    /\ text = <<>>
    /\ version = None
    /\ prev_version = None
    /\ bump_type = ""
    /\ table = EmptyTable

\* a failed expect/unwrap: the process ends with a panic
Abort(p) ==
    /\ status' = p
    /\ pc' = "done"

\* main returns
Return ==
    /\ status' = Exit(0)
    /\ pc' = "done"

Goto(l) ==
    /\ pc' = l
    /\ status' = status

\* print!("{}", s)
print_out(s) == stdout' = Append(stdout, s)

\* if args.flag_version { println!(...); return; }
CheckVersionFlag ==
    /\ pc = "main"
    /\ \/ /\ args.flag_version
          /\ print_out(<<Fmt("{} {}\n", <<"gitrelease", "CARGO_PKG_VERSION">>)>>)
          /\ Return
       \/ /\ ~args.flag_version
          /\ Goto("open")
          /\ UNCHANGED stdout
    /\ UNCHANGED <<args, tags, repo_url, last_release_tag, commits, study_vars>>

\* Repository::open(...).expect(...)
OpenRepository ==
    /\ pc = "open"
    /\ \/ Goto("remote")
       \/ Abort(Panic("Could not open repository"))
    /\ UNCHANGED <<args, stdout, tags, repo_url, last_release_tag, commits, study_vars>>

\* let repo_url = &find_origin_remote_url(&repo);
FindOriginRemoteUrl ==
    /\ pc = "remote"
    /\ \E remote \in Remotes :
          LET r == find_origin_remote_url(remote)
          IN  \/ /\ r.tag = "Ok"
                 /\ repo_url' = Some(r.val)
                 /\ Goto("tags")
              \/ /\ r.tag = "Panic"
                 /\ Abort(r)
                 /\ UNCHANGED repo_url
    /\ UNCHANGED <<args, stdout, tags, last_release_tag, commits, study_vars>>

\* if let Some(last_release_tag) = find_commit_for_last_release(...) { ... }
FindCommitForLastRelease ==
    /\ pc = "tags"
    /\ \E names_ok \in BOOLEAN :
          LET r == find_commit_for_last_release(tags, args.flag_subdir, names_ok)
          IN  \/ /\ r.tag = "Ok"
                 /\ r.val.tag = "Some"
                 /\ last_release_tag' = r.val
                 /\ Goto("head")
              \/ /\ r.tag = "Ok"
                 /\ r.val.tag = "None"
                 /\ last_release_tag' = r.val
                 /\ Return
              \/ /\ r.tag = "Panic"
                 /\ Abort(r)
                 /\ UNCHANGED last_release_tag
    /\ UNCHANGED <<args, stdout, tags, repo_url, commits, study_vars>>

\* let last_commit = find_last_commit(&repo).expect(...)
FindLastCommit ==
    /\ pc = "head"
    /\ \/ Goto("range")
       \/ Abort(Panic("Failed to find the last commit"))
    /\ UNCHANGED <<args, stdout, tags, repo_url, last_release_tag, commits, study_vars>>

\* let commits = find_commits_in_range(...): the commits the walk yields, or
\* the panic of one of its four expect calls
FindCommitsInRange ==
    /\ pc = "range"
    /\ \/ /\ \E cs \in commit_lists(Messages, MaxCommits) : commits' = cs
          /\ Goto("tag_commit")
       \/ /\ \E msg \in {"Failed to get revwalk", "Failed to push range",
                         "Failed to get oid", "Failed to find the commit"} :
                Abort(Panic(msg))
          /\ UNCHANGED commits
    /\ UNCHANGED <<args, stdout, tags, repo_url, last_release_tag, study_vars>>

\* let last_release_tag_commit = repo.find_commit(...).expect(...)
FindTagCommit ==
    /\ pc = "tag_commit"
    /\ \/ Goto("header")
       \/ Abort(Panic("Failed to find the commit for the last tag."))
    /\ UNCHANGED <<args, stdout, tags, repo_url, last_release_tag, commits, study_vars>>

\* print!("{}", get_header(&commits, &last_release_tag, &submodule));
PrintHeader ==
    /\ pc = "header"
    /\ \E date \in Dates :
          LET r == get_header(commits, last_release_tag.val,
                              args.flag_submodule, date)
          IN  \/ /\ r.tag = "Ok"
                 /\ print_out(r.val)
                 /\ Goto("changes")
              \/ /\ r.tag = "Panic"
                 /\ Abort(r)
                 /\ UNCHANGED stdout
    /\ UNCHANGED <<args, tags, repo_url, last_release_tag, commits, study_vars>>

\* print!("{}", get_categorized_changes(&commits, &submodule));
\* get_header has read every title already, so no title is missing here
PrintCategorizedChanges ==
    /\ pc = "changes"
    /\ LET t == get_category_table(commits, args.flag_submodule)
       IN  \E order \in iteration_orders(t.val) :
             LET r == get_categorized_changes(commits, args.flag_submodule,
                                              order)
             IN  IF r.tag = "Ok"
                 THEN print_out(r.val) /\ Goto("commits")
                 ELSE Abort(r) /\ UNCHANGED stdout
    /\ UNCHANGED <<args, tags, repo_url, last_release_tag, commits, study_vars>>

\* print!("{}", get_commits(&commits, &submodule, repo_url));
PrintCommits ==
    /\ pc = "commits"
    /\ LET r == get_commits(commits, args.flag_submodule, repo_url.val)
       IN  IF r.tag = "Ok"
           THEN print_out(r.val) /\ Goto("files")
           ELSE Abort(r) /\ UNCHANGED stdout
    /\ UNCHANGED <<args, tags, repo_url, last_release_tag, commits, study_vars>>

\* print!("{}", get_edited_files(&repo, ..., &subdir));
PrintEditedFiles ==
    /\ pc = "files"
    /\ \E diff \in Diffs :
          LET r == get_edited_files(diff, args.flag_subdir)
          IN  \/ /\ r.tag = "Ok"
                 /\ print_out(r.val)
                 /\ Goto("compare")
              \/ /\ r.tag = "Panic"
                 /\ Abort(r)
                 /\ UNCHANGED stdout
    /\ UNCHANGED <<args, tags, repo_url, last_release_tag, commits, study_vars>>

\* print!("{}", get_compare_changes(repo_url, last_release_tag.oid));
PrintCompareChanges ==
    /\ pc = "compare"
    /\ print_out(get_compare_changes(repo_url.val, last_release_tag.val.oid))
    /\ Goto("footer")
    /\ UNCHANGED <<args, tags, repo_url, last_release_tag, commits, study_vars>>

\* print!("{}", get_footer()); and main returns
PrintFooter ==
    /\ pc = "footer"
    /\ print_out(get_footer)
    /\ Return
    /\ UNCHANGED <<args, tags, repo_url, last_release_tag, commits, study_vars>>

Next ==
    \/ CheckVersionFlag
    \/ OpenRepository
    \/ FindOriginRemoteUrl
    \/ FindCommitForLastRelease
    \/ FindLastCommit
    \/ FindCommitsInRange
    \/ FindTagCommit
    \/ PrintHeader
    \/ PrintCategorizedChanges
    \/ PrintCommits
    \/ PrintEditedFiles
    \/ PrintCompareChanges
    \/ PrintFooter

Spec == Init /\ [][Next]_vars

----------------------------------------------------------------------------
(* find_commit_for_last_release on its own: every list of tag references
   within the bound, in every enumeration order *)

\* tag references in a repository given to find_commit_for_last_release
MaxTags == 3

TagNames ==
    { <<"v", "1">>, <<"v", "2">>, <<"v", "3">>, <<"s", "/", "a">> }

TagObjects ==
    { commit_obj(101, 1), commit_obj(102, 2), commit_obj(104, 2),
      annotated_obj(103, 3),
      [type |-> "blob", peeled |-> "blob", id |-> 0, time |-> 0],
      [type |-> "tree", peeled |-> "tree", id |-> 0, time |-> 0],
      [type |-> "missing", peeled |-> "missing", id |-> 0, time |-> 0] }

TagLists ==
    {ts \in SeqsUpTo([name : TagNames, obj : TagObjects], MaxTags) :
        distinct_names(ts)}

InitTags ==
    /\ args \in [flag_version : {FALSE}, flag_subdir : Subdirs,
                  flag_submodule : {<<>>}]
    /\ tags \in TagLists
    /\ pc = "tags"
    /\ stdout = <<>>
    /\ status = Running
    /\ repo_url = Some(HTTPS_PREFIX \o <<"h", "/", "o">>)
    /\ last_release_tag = None
    /\ commits = <<>>
    /\ text = <<>>
    /\ version = None
    /\ prev_version = None
    /\ bump_type = ""
    /\ table = EmptyTable

NextTags == FindCommitForLastRelease

SpecTags == InitTags /\ [][NextTags]_vars

----------------------------------------------------------------------------
(* Version::parse and Version::bump on their own *)

\* length of the texts given to Version::parse
MaxTextLen == 5

\* Version::bump is applied while no component exceeds this
MaxNumber == 2

TextAlphabet == {"0", "1", ".", "-", "x"}

Texts ==
    SeqsUpTo(TextAlphabet, MaxTextLen) \cup
    { <<"1", ".", "2", ".", "0", "-", "r", "c", "1">>,
      <<"1", ".", "0", ".", "2">> \o SNAPSHOT_SUFFIX,
      <<"0", ".", "1", ".", "0", "-", "r", "c">> \o SNAPSHOT_SUFFIX,
      <<"v", "1", ".", "0", ".", "0">>,
      <<"1", "0", ".", "0", "2", ".", "1">>,
      <<"2", "1", "4", "7", "4", "8", "3", "6", "4", "8", ".", "0", ".", "0">>,
      <<"0", ".", "9", "9", "9", "9", "9", "9", "9", "9", "9", "9", "9", ".", "0">>,
      <<"1", ".", "2", ".", ArabicThree>> }

BumpTypes == {"major", "minor", "patch", "snapshot", "release", ""}

InitVersion ==
    /\ text \in Texts
    /\ pc = "parse"
    /\ status = Running
    /\ version = None
    /\ prev_version = None
    /\ bump_type = ""
    /\ args = [flag_version |-> FALSE, flag_subdir |-> <<>>,
               flag_submodule |-> <<>>]
    /\ tags = <<>>
    /\ stdout = <<>>
    /\ repo_url = None
    /\ last_release_tag = None
    /\ commits = <<>>
    /\ table = EmptyTable

\* Version::parse(text)
ParseVersion ==
    /\ pc = "parse"
    /\ LET r == Version_parse(text)
       IN  \/ /\ r.tag = "Some"
              /\ version' = r
              /\ Goto("parsed")
           \/ /\ r.tag = "None"
              /\ version' = r
              /\ Goto("failed")
           \/ /\ r.tag = "Panic"
              /\ Abort(r)
              /\ UNCHANGED version
    /\ UNCHANGED <<main_vars, text, prev_version, bump_type, table>>

\* version.bump(t)
BumpVersion ==
    /\ pc \in {"parsed", "bumped"}
    /\ version.val.major <= MaxNumber
    /\ version.val.minor <= MaxNumber
    /\ version.val.patch <= MaxNumber
    /\ \E t \in BumpTypes :
          /\ bump_type' = t
          /\ prev_version' = version
          /\ version' = Some(Version_bump(version.val, t))
    /\ Goto("bumped")
    /\ UNCHANGED <<main_vars, text, table>>

NextVersion == ParseVersion \/ BumpVersion

SpecVersion == InitVersion /\ [][NextVersion]_vars

----------------------------------------------------------------------------
(* get_category_table on its own *)

\* commits given to get_category_table
MaxTitles == 2

Types == {<<"f", "e", "a", "t">>, <<"f", "i", "x">>, RELEASE}

Scopes == {<<>>, <<"(", "x", ")">>}

Separators == {<<>>, <<":">>}

Descriptions == {<<>>, <<" ", "a">>, <<" ", "b", " ", "(", "x", ")">>,
                 <<" ", "c", ":", "d", " ">>}

\* titles type scope? sep? description, and the empty message
TitleMessages ==
    {ty \o sc \o se \o de :
        ty \in Types, sc \in Scopes, se \in Separators, de \in Descriptions}
    \cup {<<>>}

InitCategory ==
    /\ args \in [flag_version : {FALSE}, flag_subdir : {<<>>},
                  flag_submodule : Submodules]
    /\ commits \in commit_lists(TitleMessages, MaxTitles)
    /\ pc = "categorize"
    /\ status = Running
    /\ table = EmptyTable
    /\ tags = <<>>
    /\ stdout = <<>>
    /\ repo_url = None
    /\ last_release_tag = None
    /\ text = <<>>
    /\ version = None
    /\ prev_version = None
    /\ bump_type = ""

\* get_category_table(&commits, &submodule)
Categorize ==
    /\ pc = "categorize"
    /\ LET r == get_category_table(commits, args.flag_submodule)
       IN  \/ /\ r.tag = "Ok"
              /\ table' = r.val
              /\ Goto("categorized")
           \/ /\ r.tag = "Panic"
              /\ Abort(r)
              /\ UNCHANGED table
    /\ UNCHANGED <<main_vars, text, version, prev_version, bump_type>>

NextCategory == Categorize

SpecCategory == InitCategory /\ [][NextCategory]_vars

----------------------------------------------------------------------------
(* Claims about Version (SpecVersion) *)

\* the positions of the "." characters of a text
dots(t) == {i \in 1..Len(t) : t[i] = "."}

\* digits "." digits "." digits, with ASCII decimal digits
three_numbers(t) ==
    /\ Cardinality(dots(t)) = 2
    /\ \A i \in 1..Len(t) : t[i] = "." \/ t[i] \in AsciiDigits
    /\ t[1] # "." /\ t[Len(t)] # "."
    /\ \A i \in dots(t) : i + 1 \notin dots(t)

\* the number a text of ASCII digits denotes
RECURSIVE numeric_value(_)
numeric_value(d) ==
    IF d = <<>> THEN 0
    ELSE 10 * numeric_value(SubSeq(d, 1, Len(d) - 1)) + digit_value(d[Len(d)])

\* segment k (1..3) of a text of the form three_numbers
segment(t, k) ==
    LET a == CHOOSE i \in dots(t) : \A j \in dots(t) : i <= j
        b == CHOOSE i \in dots(t) : \A j \in dots(t) : i >= j
    IN  CASE k = 1 -> SubSeq(t, 1, a - 1)
          [] k = 2 -> SubSeq(t, a + 1, b - 1)
          [] k = 3 -> SubSeq(t, b + 1, Len(t))

\* C8: Version::parse is total with two outcomes: it never aborts; a text
\* digits "." digits "." digits gives a fully populated Version whose
\* major, minor and patch are the numbers of the segments; a text the
\* version pattern does not match gives None.
C8_ParseIsTotal ==
    pc \in {"parsed", "failed", "done"} =>
        /\ status.tag # "Panic"
        /\ three_numbers(text) =>
              /\ version.tag = "Some"
              /\ DOMAIN version.val =
                   {"major", "minor", "patch", "extra", "snapshot"}
              /\ version.val.major = numeric_value(segment(text, 1))
              /\ version.val.minor = numeric_value(segment(text, 2))
              /\ version.val.patch = numeric_value(segment(text, 3))
        /\ VERSION_REGEX_captures(text).tag = "None" => version.tag = "None"

\* the bump table of Version::bump
bump_table(v, t, w) ==
    CASE t = "major" ->
           /\ w.major = v.major + 1 /\ w.minor = 0 /\ w.patch = 0
           /\ w.snapshot = FALSE /\ w.extra = v.extra
      [] t = "minor" ->
           /\ w.major = v.major /\ w.minor = v.minor + 1 /\ w.patch = 0
           /\ w.snapshot = FALSE /\ w.extra = v.extra
      [] t = "patch" ->
           /\ w.major = v.major /\ w.minor = v.minor
           /\ w.patch = v.patch + 1
           /\ w.snapshot = FALSE /\ w.extra = v.extra
      [] t = "snapshot" ->
           /\ w.major = v.major /\ w.minor = v.minor
           /\ w.patch = v.patch + 1
           /\ w.snapshot = TRUE /\ w.extra = v.extra
      [] OTHER -> w = v

----------------------------------------------------------------------------
(* Claims about find_commit_for_last_release (SpecTags) *)

\* find_commit_for_last_release has returned
tags_returned == pc \in {"head", "done"} /\ status.tag # "Panic"

\* the matching tags whose lookup gives a commit
candidates ==
    {i \in DOMAIN tags :
        /\ matches_pattern(tags[i].name, args.flag_subdir)
        /\ tags[i].obj.type = "commit"}

\* the candidates whose commit has the greatest author timestamp
greatest == {i \in candidates :
                \A j \in candidates : tags[j].obj.time <= tags[i].obj.time}

\* C4: find_commit_for_last_release returns, among the matching tags that
\* resolve to a commit, one whose commit has the greatest author timestamp;
\* among several with that timestamp, the first in enumeration order; and
\* none exactly when there is no candidate.
C4_LatestFirstSeen ==
    tags_returned =>
        /\ last_release_tag.tag = "None" <=> candidates = {}
        /\ candidates # {} =>
              LET first == CHOOSE i \in greatest : \A j \in greatest : i <= j
              IN  last_release_tag.val =
                      [name |-> tags[first].name,
                       time |-> tags[first].obj.time,
                       oid |-> tags[first].obj.id]

\* two candidates share the greatest timestamp, after an older one, and the
\* first of the two is returned
C4_Witness ==
    /\ tags_returned
    /\ Cardinality(candidates) = 3
    /\ Cardinality(greatest) = 2
    /\ \E i \in candidates \ greatest : \A j \in greatest : i < j
    /\ \E i, j \in greatest :
          i < j /\ last_release_tag.val.name = tags[i].name

\* the matching tags that ultimately point to a commit
pointing_to_commit ==
    {i \in DOMAIN tags :
        /\ matches_pattern(tags[i].name, args.flag_subdir)
        /\ tags[i].obj.peeled = "commit"}

\* C5: every matching tag is resolved to the commit it ultimately points
\* to, following annotated-tag indirection: a matching annotated tag is a
\* candidate with its commit's author timestamp and id, and only tags that
\* ultimately point to a non-commit object are skipped.
C5_AnnotatedTagsAreCandidates ==
    tags_returned =>
        \A i \in pointing_to_commit :
            /\ last_release_tag.tag = "Some"
            /\ last_release_tag.val.time >= tags[i].obj.time
            /\ (\A j \in pointing_to_commit \ {i} :
                    tags[j].obj.time < tags[i].obj.time)
                 => last_release_tag.val =
                        [name |-> tags[i].name, time |-> tags[i].obj.time,
                         oid |-> tags[i].obj.id]

----------------------------------------------------------------------------
(* Claims about get_category_table (SpecCategory) *)

\* the title of commit c (which has one)
title_of(c) == lines_next(c.message).val

\* the commits get_category_table considers: not a release marker, and
\* passing the submodule filter
considered(cs, submodule) ==
    {i \in DOMAIN cs :
        /\ cs[i].message # <<>>
        /\ ~starts_with(title_of(cs[i]), RELEASE)
        /\ passes_submodule(title_of(cs[i]), submodule)}

\* the category key of a title that contains ":": the text before the
\* first "(" when that "(" is before the first ":", else the text before
\* the first ":"
key_of(title) ==
    LET colon == find(title, ":")
        paren == find(title, "(")
    IN  IF paren # 0 /\ paren < colon
        THEN SubSeq(title, 1, paren - 1)
        ELSE SubSeq(title, 1, colon - 1)

\* description d is filed under key k of table t
filed(t, k, d) == k \in DOMAIN t /\ \E j \in DOMAIN t[k] : t[k][j] = d

\* C3: every considered commit title that contains ":" is filed under the
\* key that is its prefix up to the first "(" when that "(" is before the
\* first ":", and otherwise its prefix up to the first ":"; a "(" after the
\* first ":" does not affect the key.
C3_KeyStopsAtParenBeforeColon ==
    pc = "categorized" =>
        \A i \in considered(commits, args.flag_submodule) :
            LET title == title_of(commits[i])
            IN  find(title, ":") # 0 =>
                    filed(table, key_of(title),
                          trim(Tail_from(title, find(title, ":") + 1)))

----------------------------------------------------------------------------
(* Claims about main (Spec) *)

\* C1: no partial output on a fatal error: whenever a stage of main aborts,
\* nothing has been written to standard output.
C1_NoOutputBeforeAbort == status.tag = "Panic" => stdout = <<>>

\* no tag of the repository matches the pattern and ultimately points to a
\* commit
no_release_tag ==
    \A i \in DOMAIN tags :
        ~(/\ matches_pattern(tags[i].name, args.flag_subdir)
          /\ tags[i].obj.peeled = "commit")

\* C2: when no release tag can be resolved, a run on a repository that can
\* be opened prints nothing and terminates normally with exit status 0.
C2_NoTagIsSilentSuccess ==
    ( /\ pc = "done"
      /\ ~args.flag_version
      /\ status # Panic("Could not open repository")
      /\ no_release_tag )
    => (status = Exit(0) /\ stdout = <<>>)

\* the pieces main has printed for the header, the categorized changes and
\* the commit list, once printed
header_printed == ~args.flag_version /\ Len(stdout) >= 1

changes_printed == ~args.flag_version /\ Len(stdout) >= 2

commits_printed == ~args.flag_version /\ Len(stdout) >= 3

header_version == stdout[1][1].args[1]

\* a commit whose title starts with "Release"
is_release_commit(c) ==
    c.message # <<>> /\ starts_with(title_of(c), RELEASE)

\* the commits that are not release commits
RECURSIVE without_release(_)
without_release(cs) ==
    IF cs = <<>> THEN <<>>
    ELSE IF is_release_commit(cs[Len(cs)])
    THEN without_release(SubSeq(cs, 1, Len(cs) - 1))
    ELSE Append(without_release(SubSeq(cs, 1, Len(cs) - 1)), cs[Len(cs)])

\* C6: a commit whose title starts with "Release" never appears in the
\* output: the category table and the categorized changes are those of the
\* other commits alone and no key comes from a release title, the commit
\* list has no bullet for it, and the header is the one the other commits
\* alone give.
C6_ReleaseCommitsAbsent ==
    LET sub == args.flag_submodule
        others == without_release(commits)
        t == get_category_table(commits, sub)
    IN  /\ header_printed =>
              /\ t = get_category_table(others, sub)
              /\ \A k \in DOMAIN t.val : ~starts_with(k, RELEASE)
              /\ stdout[1] =
                   get_header(others, last_release_tag.val, sub,
                              stdout[1][1].args[2]).val
        /\ changes_printed =>
              \E order \in iteration_orders(t.val) :
                  stdout[2] = get_categorized_changes(others, sub, order).val
        /\ commits_printed =>
              /\ \A i \in DOMAIN stdout[3] :
                     stdout[3][i].fmt = "* [{}]({})\n" =>
                         \E j \in DOMAIN others :
                             /\ stdout[3][i].args[1] = title_of(others[j])
                             /\ stdout[3][i].args[2].args[2] = others[j].id
              /\ Len(stdout[3]) <= Len(others) + 2

\* the commit list has been printed for a range that holds a release commit
\* whose title has a ":" and passes the submodule filter, and another
\* commit that is listed
C6_Witness ==
    /\ commits_printed
    /\ args.flag_submodule # <<>>
    /\ \E i \in DOMAIN commits :
          /\ is_release_commit(commits[i])
          /\ find(title_of(commits[i]), ":") # 0
          /\ passes_submodule(title_of(commits[i]), args.flag_submodule)
    /\ Len(stdout[3]) = 3
    /\ Len(stdout[2]) > 1

\* the version of the last release tag: the last "/"-delimited segment of
\* its name, a leading "v" stripped, parsed
tag_version ==
    LET last == split_last(last_release_tag.val.name, "/")
    IN  Version_parse(IF last[1] = "v" THEN Tail_from(last, 2) ELSE last).val

\* the category table of the range commits has a non-empty "feat" entry
has_feat ==
    LET t == get_category_table(commits, args.flag_submodule).val
    IN  <<"f", "e", "a", "t">> \in DOMAIN t /\ t[<<"f", "e", "a", "t">>] # <<>>

minor_bumped(v) == [v EXCEPT !.minor = @ + 1, !.patch = 0]

patch_bumped(v) == [v EXCEPT !.patch = @ + 1]

\* C7: the version in the header is the version of the last release tag
\* bumped "minor" when the category table of the range commits under the
\* submodule filter has a non-empty "feat" entry, and "patch" otherwise.
C7_HeaderBump ==
    header_printed =>
        header_version =
            Version_to_string(IF has_feat THEN minor_bumped(tag_version)
                              ELSE patch_bumped(tag_version))

\* a header with a "minor" bump, for a tag under a folder and a submodule
\* filter that lets a feat commit through
C7_Witness ==
    /\ header_printed
    /\ has_feat
    /\ args.flag_submodule # <<>>
    /\ args.flag_subdir # <<>>
    /\ header_version = <<"0", ".", "1", "0", ".", "0">>

\* the categorized changes hold a "Features" subheading
has_features_heading ==
    \E i \in DOMAIN stdout[2] :
        /\ stdout[2][i].fmt = "#### {}\n\n"
        /\ stdout[2][i].args[1] = "Features"

\* C10: the header applies a "minor" bump if and only if the categorized
\* changes of the same document hold a "Features" subheading, and a "patch"
\* bump exactly when they hold none.
C10_HeaderMatchesFeatures ==
    changes_printed =>
        /\ header_version = Version_to_string(minor_bumped(tag_version))
              <=> has_features_heading
        /\ header_version = Version_to_string(patch_bumped(tag_version))
              <=> ~has_features_heading

\* a document with a "Features" subheading after another subheading, under
\* a header with a "minor" bump
C10_Witness ==
    /\ changes_printed
    /\ header_version = Version_to_string(minor_bumped(tag_version))
    /\ \E i, j \in DOMAIN stdout[2] :
          /\ i < j
          /\ stdout[2][i].fmt = "#### {}\n\n"
          /\ stdout[2][i].args[1] = "Bug Fixes"
          /\ stdout[2][j].fmt = "#### {}\n\n"
          /\ stdout[2][j].args[1] = "Features"

=============================================================================
